---- MODULE Spec2Model ----
(***************************************************************************)
(* Model of the two lecture-capture sync scripts:                          *)
(*   src/files/assign_flavor.py              (status-only variant)         *)
(*   src/opencast-docker/files/sync_video.py (evaluate-and-fix variant)    *)
(*                                                                         *)
(* One run of one script is modelled, statement group by statement group,  *)
(* on a file system shared with whatever was there before the run.  In     *)
(* Spec nothing but the run changes the file system while it runs; in      *)
(* SequentialSpec and ConcurrentSpec a second run of sync_video.py follows *)
(* it or is interleaved with it in the same working directory.  A duration *)
(* belongs to the file probed and is the decimal number of microseconds    *)
(* ffprobe prints; what float() makes of it, and the float arithmetic on   *)
(* it, are modelled exactly (see Floats).  File sizes are bytes.           *)
(***************************************************************************)
EXTENDS Integers, Sequences, FiniteSets, TLC

VARIABLES
    variant,            \* which script runs: "assign_flavor" or "sync_video"
    argc,               \* len(sys.argv)
    presenter_input,    \* sys.argv[1] as typed
    presentation_input, \* sys.argv[2] as typed
    outputfile,         \* sys.argv[3] as typed ("" when not given)
    pc,                 \* position of the run in the script
    exitcode,           \* process exit code, Running while the process lives
    a1, a2,             \* probed audio durations: the microseconds ffprobe
                        \* printed, which fix the float; Unset before
    status,             \* "no-fix-needed" / "fix-needed", "" before assignment
    offset,             \* offset, a float
    fixed_type,         \* "none" / "presenter" / "presentation" / "unknown"
    ref, desynced,      \* paths chosen on the fix path, "" before assignment
    fs,                 \* the file system: absolute path -> file
    fs0,                \* the file system when the (first) run started
    procs,              \* external processes spawned so far, in order
    touched,            \* absolute paths this run wrote, truncated or deleted
    peer                \* a second run of the same command in the same working
                        \* directory, while it is not the one scheduled: its
                        \* saved position and locals (NoPeer when there is none)

vars == << variant, argc, presenter_input, presentation_input, outputfile, pc,
           exitcode, a1, a2, status, offset, fixed_type, ref, desynced, fs,
           fs0, procs, touched, peer >>

----------------------------------------------------------------------------
(* Bounds of the model *)

\* durations are drawn at 10 s and around 10 s + k * 0.1 s, k in 1..MaxDurSteps
MaxDurSteps == 1
\* how often the scheduler changes between two concurrent runs
MaxSwitches == 2

(* Program constants *)

\* sync_video.py `os.path.getsize(output) < 10000`
MIN_OUTPUT_SIZE == 10000
\* sync_video.py `len(sys.argv) < 4`
MIN_ARGC == 4
\* microseconds per printed unit of `{offset:.2f}` (two decimals of a second)
CENTI == 10000

\* exitcode of a process that has not exited; a duration not yet probed
Running == 0 - 1
Unset == 0 - 1

----------------------------------------------------------------------------
(* Paths.  Arguments are strings as typed; the file system is keyed by the  *)
(* absolute path a string resolves to in the working directory /work.       *)

TEMP_AUDIO == "/work/temp_offset_audio.aac"
BLANK == "/work/blank_with_audio.mp4"
FIXED == "/work/desynced_fixed.mp4"
CONCAT_LIST == "/work/concat_list.txt"
PARAMS_LOG == "/tmp/video_params.log"

TempFiles == {TEMP_AUDIO, BLANK, FIXED, CONCAT_LIST}

\* os.path.abspath: joins a relative name to the working directory and
\* normalises it; an absolute name is kept
abspath(p) ==
    CASE p = "presenter.mp4" -> "/work/presenter.mp4"
      [] p = "./presenter.mp4" -> "/work/presenter.mp4"
      [] p = "presentation.mp4" -> "/work/presentation.mp4"
      [] p = "output.mp4" -> "/work/output.mp4"
      [] p = "temp_offset_audio.aac" -> TEMP_AUDIO
      [] p = "blank_with_audio.mp4" -> BLANK
      [] p = "desynced_fixed.mp4" -> FIXED
      [] p = "concat_list.txt" -> CONCAT_LIST
      [] OTHER -> p

\* path arguments tried: ordinary files, two spellings of one file, an input
\* named like a temporary file, an output that is an input or the log file
InputArgs == {"presenter.mp4", "./presenter.mp4", "presentation.mp4",
              "temp_offset_audio.aac", "blank_with_audio.mp4",
              "desynced_fixed.mp4", "concat_list.txt"}
PresenterArgs == InputArgs
PresentationArgs == InputArgs
OutputArgs == {"output.mp4", "presenter.mp4", PARAMS_LOG}

InputFiles == {"/work/presenter.mp4", "/work/presentation.mp4"}
OUTPUT_MP4 == "/work/output.mp4"

Paths == InputFiles \cup {OUTPUT_MP4} \cup TempFiles \cup {PARAMS_LOG}

----------------------------------------------------------------------------
(* Files *)

\* kind: what the file holds; by: "before" (there before the run), "run"
\* (written by this run) or "peer" (written by the other run); size in bytes; duration: what ffprobe reports for
\* its first audio stream, Unset when it reports none; lines: the lines of a
\* text file (of a manifest, the absolute path each `file '...'` line names)
Absent == [kind |-> "absent", by |-> "none", size |-> 0, duration |-> Unset,
           lines |-> << >>]

\* sizes around the verification threshold, and the empty file
Sizes == {0, MIN_OUTPUT_SIZE - 1, MIN_OUTPUT_SIZE, MIN_OUTPUT_SIZE + 1}

\* The only size the scripts read is that of the output path
\* (os.path.getsize(output)); every other file gets one fixed size.
SizesAt(p, out) == IF p = abspath(out) THEN Sizes ELSE {MIN_OUTPUT_SIZE + 1}

exists(f, p) == f[p].kind # "absent"

\* a media file written by this run
NewFile(kind, size, duration) ==
    [kind |-> kind, by |-> "run", size |-> size, duration |-> duration, lines |-> << >>]

\* a text file written by this run
TextFile(kind, size, lines) ==
    [kind |-> kind, by |-> "run", size |-> size, duration |-> Unset, lines |-> lines]

\* a file that was there before the run
OldFile(size, duration) ==
    [kind |-> "old", by |-> "before", size |-> size, duration |-> duration,
     lines |-> << >>]

\* what a failed tool may leave at its output path (its size is never read:
\* the run aborts)
PartialFile == NewFile("partial", 0, Unset)

Abs(x) == IF x < 0 THEN -x ELSE x

\* audio durations tried, in microseconds: 10.0 s (ffprobe prints
\* "10.000000") and the values within a microsecond of 10.1 s, 10.2 s, ...
Durations ==
    {10 * 1000000} \cup
    {10 * 1000000 + k * 100000 + j : k \in 1..MaxDurSteps, j \in {-1, 0, 1}}

----------------------------------------------------------------------------
(* Floats.  Python's float is IEEE 754 binary64.  A float is written       *)
(* [us, err] and stands for exactly (us * 2^56 + err) / (10^6 * 2^56)      *)
(* seconds: us microseconds and an error err, far below a microsecond, in  *)
(* units of 2^-56 microseconds.  Every binary64 value from 1/16 up is a    *)
(* whole number of these units.                                            *)

\* float(s) for the text s ffprobe prints for k microseconds: the error of
\* the nearest binary64 value (float("10.1") is 10.1 - 25600000 units, i.e.
\* 10.0999999999999996447...)
float_err(k) ==
    CASE k = 10000000 -> 0
      [] k = 10099999 -> 28327936
      [] k = 10100000 -> -25600000
      [] k = 10100001 -> 48472064
      [] k = 10199999 -> 2727936
      [] k = 10200000 -> -51200000
      [] k = 10200001 -> 22872064
      [] k = 10299999 -> -22872064
      [] k = 10300000 -> 51200000
      [] k = 10300001 -> -2727936

float(k) == [us |-> k, err |-> float_err(k)]

\* the literal 0: exact
Zero == [us |-> 0, err |-> 0]

\* the literal 0.1: the nearest binary64 value is
\* 0.1000000000000000055511151231257827..., 400000 units above 0.1
TenthOfSecond == [us |-> 100000, err |-> 400000]

\* x - y on floats.  The durations tried lie within a factor of two of each
\* other, so the difference of two of them is a binary64 value and the
\* subtraction rounds nothing.
fsub(x, y) == [us |-> x.us - y.us, err |-> x.err - y.err]

\* x < y on floats
flt(x, y) == x.us < y.us \/ (x.us = y.us /\ x.err < y.err)

\* abs(x) on floats
fabs(x) == IF flt(x, Zero) THEN [us |-> -x.us, err |-> -x.err] ELSE x

\* assign_flavor.py `offset < 0.1`
AF_THRESHOLD == TenthOfSecond
\* sync_video.py `abs(a1 - a2) < 0.1`
SV_THRESHOLD == TenthOfSecond

\* the length of a file's audio, 0 when it has none
Dur(f) == IF f.duration = Unset THEN 0 ELSE f.duration

----------------------------------------------------------------------------
(* The state when the interpreter starts the script *)

InitialPresent ==
    { ins \cup outs \cup temps :
        ins \in SUBSET InputFiles,
        outs \in SUBSET {OUTPUT_MP4},
        temps \in {{}, TempFiles \cup {PARAMS_LOG}} }

\* The files there before the run.  The run reads the size of the output
\* path and the audio durations of the two input paths only, so these vary
\* and every other file gets a fixed size and no audio.
InitialFileSystems(in_a, in_b, out) ==
    { [p \in Paths |->
         IF p \in present
           THEN OldFile(IF p = abspath(out) THEN sz ELSE MIN_OUTPUT_SIZE + 1,
                        IF p = abspath(in_a) THEN da
                        ELSE IF p = abspath(in_b) THEN db ELSE Unset)
           ELSE Absent] :
        present \in InitialPresent, sz \in Sizes,
        da \in Durations \cup {Unset}, db \in Durations \cup {Unset} }

\* the saved context of a run that has not started yet
FreshRun ==
    [pc |-> "start", exitcode |-> Running, a1 |-> Unset, a2 |-> Unset,
     status |-> "", offset |-> Zero, fixed_type |-> "", ref |-> "", desynced |-> "",
     procs |-> << >>, touched |-> {}]

\* no second run
NoPeer == [present |-> FALSE, switches |-> 0, run |-> FreshRun]

Init ==
    /\ variant \in {"assign_flavor", "sync_video"}
    /\ argc \in {MIN_ARGC - 1, MIN_ARGC}
    /\ presenter_input \in PresenterArgs
    /\ presentation_input \in PresentationArgs
    /\ outputfile \in IF argc < MIN_ARGC THEN {""} ELSE OutputArgs
    /\ pc = "start"
    /\ exitcode = Running
    /\ a1 = Unset /\ a2 = Unset
    /\ status = "" /\ offset = Zero /\ fixed_type = ""
    /\ ref = "" /\ desynced = ""
    /\ fs \in InitialFileSystems(presenter_input, presentation_input, outputfile)
    /\ fs0 = fs
    /\ procs = << >>
    /\ touched = {}
    /\ peer = NoPeer

----------------------------------------------------------------------------
(* External processes.  A spawned tool is recorded with the files it reads  *)
(* (and who wrote them), the file it writes, the length d of what it writes *)
(* (extraction and muxing get it as their duration argument) and whether it *)
(* exited with status 0.                                                    *)

Proc(tool, reads, output, d, ok) ==
    [tool |-> tool, reads |-> reads,
     readsBy |-> [i \in DOMAIN reads |-> fs[reads[i]].by],
     output |-> output, d |-> d, ok |-> ok]

\* sys.exit(1), or an uncaught exception ending the interpreter
Exit1 == pc' = "Aborted" /\ exitcode' = 1

run_vars == << variant, argc, presenter_input, presentation_input, outputfile, fs0,
              peer >>
decision_vars == << status, offset, fixed_type, ref, desynced >>

\* ffmpeg with check=True dropped: a nonzero exit status is not noticed
ffmpeg_unchecked(tool, reads, out, d, kind, next) ==
    /\ \E ok \in BOOLEAN :
         /\ ok => \A i \in DOMAIN reads : exists(fs, reads[i])
         /\ fs' = IF ok THEN [fs EXCEPT ![out] = NewFile(kind, MIN_OUTPUT_SIZE + 1, d.us)]
                        ELSE fs
         /\ touched' = IF ok THEN touched \cup {out} ELSE touched
         /\ procs' = Append(procs, Proc(tool, reads, out, d, ok))
    /\ pc' = next
    /\ UNCHANGED exitcode

\* subprocess.run(['ffmpeg', '-y', ..., out], check=True) inside try/except
\* CalledProcessError -> sys.exit(1).  Exit status 0 needs every file the
\* tool reads to exist and leaves the output written, `d` (a float) long to
\* the microsecond; a nonzero exit leaves the output path as it was or
\* holding a partial file.
ffmpeg(tool, reads, out, d, kind, next) ==
    \/ /\ \A i \in DOMAIN reads : exists(fs, reads[i])
       /\ \E sz \in SizesAt(out, outputfile) :
            fs' = [fs EXCEPT ![out] = NewFile(kind, sz, d.us)]
       /\ touched' = touched \cup {out}
       /\ procs' = Append(procs, Proc(tool, reads, out, d, TRUE))
       /\ pc' = next
       /\ UNCHANGED exitcode
    \/ /\ \E wrote \in BOOLEAN :
            /\ fs' = IF wrote THEN [fs EXCEPT ![out] = PartialFile] ELSE fs
            /\ touched' = IF wrote THEN touched \cup {out} ELSE touched
       /\ procs' = Append(procs, Proc(tool, reads, out, d, FALSE))
       /\ Exit1

\* if os.path.exists(p): os.remove(p)
remove(f, p) == IF exists(f, p) THEN [f EXCEPT ![p] = Absent] ELSE f

----------------------------------------------------------------------------
(* sync_video.py *)

\* lines 16-22: argument count check, then the three arguments are read
sv_check_args ==
    /\ variant = "sync_video" /\ pc = "start"
    /\ IF argc < MIN_ARGC
         THEN Exit1
         ELSE pc' = "validate_inputs" /\ UNCHANGED exitcode
    /\ UNCHANGED << run_vars, decision_vars, a1, a2, fs, procs, touched >>

\* validation that looks at the first input only
sv_validate_first_input_only ==
    /\ variant = "sync_video" /\ pc = "validate_inputs"
    /\ IF ~exists(fs, abspath(presenter_input))
         THEN Exit1
         ELSE pc' = "probe_a" /\ UNCHANGED exitcode
    /\ UNCHANGED << run_vars, decision_vars, a1, a2, fs, procs, touched >>

\* lines 31-34: both input paths must exist
sv_validate_inputs ==
    /\ variant = "sync_video" /\ pc = "validate_inputs"
    /\ IF \E path \in {presenter_input, presentation_input} : ~exists(fs, abspath(path))
         THEN Exit1
         ELSE pc' = "probe_a" /\ UNCHANGED exitcode
    /\ UNCHANGED << run_vars, decision_vars, a1, a2, fs, procs, touched >>

\* get_audio_duration, lines 36-54: one ffprobe process; its output parses
\* to the duration of the file's first audio stream, or, when the file has
\* none, the parse fails and the script exits with 1
get_audio_duration(filename, result, next) ==
    IF exists(fs, abspath(filename)) /\ fs[abspath(filename)].duration # Unset
      THEN /\ result' = fs[abspath(filename)].duration
           /\ procs' = Append(procs, Proc("ffprobe", << abspath(filename) >>, "", Zero, TRUE))
           /\ pc' = next
           /\ UNCHANGED exitcode
      ELSE /\ result' = result
           /\ procs' = Append(procs, Proc("ffprobe", << abspath(filename) >>, "", Zero, FALSE))
           /\ Exit1

\* line 143: a1 = get_audio_duration(video_a); video_a is presenter_input
sv_probe_a ==
    /\ variant = "sync_video" /\ pc = "probe_a"
    /\ get_audio_duration(presenter_input, a1, "probe_b")
    /\ UNCHANGED << run_vars, decision_vars, a2, fs, touched >>

\* line 144: a2 = get_audio_duration(video_b); video_b is presentation_input
sv_probe_b ==
    /\ variant = "sync_video" /\ pc = "probe_b"
    /\ get_audio_duration(presentation_input, a2, "evaluate")
    /\ UNCHANGED << run_vars, decision_vars, a1, fs, touched >>

\* the decision with the reference and the desynced file exchanged
auto_fix_decision_swapped(d1, d2, video_a, video_b, presenter, presentation) ==
    IF flt(fabs(fsub(float(d1), float(d2))), SV_THRESHOLD)
      THEN [status |-> "no-fix-needed", offset |-> Zero, fixed_type |-> "none",
            ref |-> "", desynced |-> ""]
      ELSE LET r == IF flt(float(d2), float(d1)) THEN video_b ELSE video_a
               ds == IF flt(float(d2), float(d1)) THEN video_a ELSE video_b
               off == IF flt(float(d2), float(d1))
                        THEN fsub(float(d1), float(d2))
                        ELSE fsub(float(d2), float(d1))
               ft == IF abspath(ds) = abspath(presenter) THEN "presenter"
                     ELSE IF abspath(ds) = abspath(presentation) THEN "presentation"
                     ELSE "unknown"
           IN [status |-> "fix-needed", offset |-> off, fixed_type |-> ft,
               ref |-> r, desynced |-> ds]

\* lines 148-171 of auto_fix_offset(video_a, video_b, output, presenter,
\* presentation): the decision, as a record of the locals it assigns; d1
\* and d2 are the microseconds printed for a1 and a2
auto_fix_decision(d1, d2, video_a, video_b, presenter, presentation) ==
    IF flt(fabs(fsub(float(d1), float(d2))), SV_THRESHOLD)
      THEN [status |-> "no-fix-needed", offset |-> Zero, fixed_type |-> "none",
            ref |-> "", desynced |-> ""]
      ELSE LET r == IF flt(float(d2), float(d1)) THEN video_a ELSE video_b
               ds == IF flt(float(d2), float(d1)) THEN video_b ELSE video_a
               off == IF flt(float(d2), float(d1))
                        THEN fsub(float(d1), float(d2))
                        ELSE fsub(float(d2), float(d1))
               ft == IF abspath(ds) = abspath(presenter) THEN "presenter"
                     ELSE IF abspath(ds) = abspath(presentation) THEN "presentation"
                     ELSE "unknown"
           IN [status |-> "fix-needed", offset |-> off, fixed_type |-> ft,
               ref |-> r, desynced |-> ds]

\* the evaluation with the cleanup of lines 178-180 run on both branches
sv_evaluate_cleanup_always ==
    /\ variant = "sync_video" /\ pc = "evaluate"
    /\ LET dec == auto_fix_decision(a1, a2, presenter_input, presentation_input,
                                    presenter_input, presentation_input)
       IN /\ status' = dec.status
          /\ offset' = dec.offset
          /\ fixed_type' = dec.fixed_type
          /\ ref' = dec.ref
          /\ desynced' = dec.desynced
          /\ pc' = IF dec.status = "fix-needed" THEN "extract_audio"
                                                ELSE "remove_intermediates"
    /\ UNCHANGED << run_vars, a1, a2, exitcode, fs, procs, touched >>

\* the evaluation called without its two role paths, which then take the
\* defaults of the signature on line 140
sv_evaluate_default_roles ==
    /\ variant = "sync_video" /\ pc = "evaluate"
    /\ LET dec == auto_fix_decision(a1, a2, presenter_input, presentation_input,
                                    "presenter.mp4", "presentation.mp4")
       IN /\ status' = dec.status
          /\ offset' = dec.offset
          /\ fixed_type' = dec.fixed_type
          /\ ref' = dec.ref
          /\ desynced' = dec.desynced
          /\ pc' = IF dec.status = "fix-needed" THEN "extract_audio" ELSE "write_params_log"
    /\ UNCHANGED << run_vars, a1, a2, exitcode, fs, procs, touched >>

\* lines 148-173, called as on lines 192-198
sv_evaluate ==
    /\ variant = "sync_video" /\ pc = "evaluate"
    /\ LET dec == auto_fix_decision(a1, a2, presenter_input, presentation_input,
                                    presenter_input, presentation_input)
       IN /\ status' = dec.status
          /\ offset' = dec.offset
          /\ fixed_type' = dec.fixed_type
          /\ ref' = dec.ref
          /\ desynced' = dec.desynced
          /\ pc' = IF dec.status = "fix-needed" THEN "extract_audio" ELSE "write_params_log"
    /\ UNCHANGED << run_vars, a1, a2, exitcode, fs, procs, touched >>

\* create_offset_video, lines 79-86: extract `offset_duration` seconds of
\* the reference file's audio into temp_offset_audio.aac
sv_extract_audio ==
    /\ variant = "sync_video" /\ pc = "extract_audio"
    /\ ffmpeg("extract_audio", << abspath(ref) >>, TEMP_AUDIO, offset, "audio", "mux_leader")
    /\ UNCHANGED << run_vars, decision_vars, a1, a2 >>

\* create_offset_video, lines 88-96: black video muxed with the extracted
\* audio into blank_with_audio.mp4
sv_mux_leader ==
    /\ variant = "sync_video" /\ pc = "mux_leader"
    /\ ffmpeg("mux_leader", << TEMP_AUDIO >>, BLANK, offset, "leader", "remove_temp_audio")
    /\ UNCHANGED << run_vars, decision_vars, a1, a2 >>

\* create_offset_video, lines 98-99: reached only when both tools exited 0
sv_remove_temp_audio ==
    /\ variant = "sync_video" /\ pc = "remove_temp_audio"
    /\ fs' = remove(fs, TEMP_AUDIO)
    /\ touched' = IF exists(fs, TEMP_AUDIO) THEN touched \cup {TEMP_AUDIO} ELSE touched
    /\ pc' = "reencode"
    /\ UNCHANGED << run_vars, decision_vars, a1, a2, exitcode, procs >>

\* the re-encoding skipped when desynced_fixed.mp4 is already there
sv_reencode_video_cached ==
    /\ variant = "sync_video" /\ pc = "reencode"
    /\ IF exists(fs, FIXED)
         THEN /\ pc' = "write_manifest"
              /\ UNCHANGED << fs, touched, procs, exitcode >>
         ELSE ffmpeg("reencode_video", << abspath(desynced) >>, FIXED,
                     [us |-> Dur(fs[abspath(desynced)]), err |-> 0], "reencoded",
                     "write_manifest")
    /\ UNCHANGED << run_vars, decision_vars, a1, a2 >>

\* reencode_video(desynced, "desynced_fixed.mp4"), lines 105-118
sv_reencode_video ==
    /\ variant = "sync_video" /\ pc = "reencode"
    /\ ffmpeg("reencode_video", << abspath(desynced) >>, FIXED,
              [us |-> Dur(fs[abspath(desynced)]), err |-> 0], "reencoded", "write_manifest")
    /\ UNCHANGED << run_vars, decision_vars, a1, a2 >>

\* the manifest concat_videos(video1, video2, output) writes, lines 122-124
Manifest(video1, video2) ==
    TextFile("manifest", MIN_OUTPUT_SIZE + 1, << abspath(video1), abspath(video2) >>)

\* the total length of the clips a manifest names
RECURSIVE TotalDur(_, _)
TotalDur(f, clips) ==
    IF clips = << >> THEN 0 ELSE Dur(f[Head(clips)]) + TotalDur(f, Tail(clips))

\* the manifest written only when none is there
sv_write_manifest_if_missing ==
    /\ variant = "sync_video" /\ pc = "write_manifest"
    /\ fs' = IF exists(fs, CONCAT_LIST) THEN fs
             ELSE [fs EXCEPT ![CONCAT_LIST] =
                       Manifest("blank_with_audio.mp4", "desynced_fixed.mp4")]
    /\ touched' = IF exists(fs, CONCAT_LIST) THEN touched ELSE touched \cup {CONCAT_LIST}
    /\ pc' = "concat"
    /\ UNCHANGED << run_vars, decision_vars, a1, a2, exitcode, procs >>

\* concat_videos("blank_with_audio.mp4", "desynced_fixed.mp4", output),
\* lines 122-124
sv_write_manifest ==
    /\ variant = "sync_video" /\ pc = "write_manifest"
    /\ fs' = [fs EXCEPT ![CONCAT_LIST] = Manifest("blank_with_audio.mp4", "desynced_fixed.mp4")]
    /\ touched' = touched \cup {CONCAT_LIST}
    /\ pc' = "concat"
    /\ UNCHANGED << run_vars, decision_vars, a1, a2, exitcode, procs >>

\* concat_videos, lines 126-133: the concat demuxer reads the manifest and
\* the files it names, and writes the output path
sv_concat ==
    /\ variant = "sync_video" /\ pc = "concat"
    /\ ffmpeg("concat_videos", << CONCAT_LIST >> \o fs[CONCAT_LIST].lines,
              abspath(outputfile),
              [us |-> TotalDur(fs, fs[CONCAT_LIST].lines), err |-> 0],
              "concat", "remove_manifest")
    /\ UNCHANGED << run_vars, decision_vars, a1, a2 >>

\* concat_videos, lines 134-135: reached only when the tool exited 0
sv_remove_manifest ==
    /\ variant = "sync_video" /\ pc = "remove_manifest"
    /\ fs' = remove(fs, CONCAT_LIST)
    /\ touched' = IF exists(fs, CONCAT_LIST) THEN touched \cup {CONCAT_LIST} ELSE touched
    /\ pc' = "remove_intermediates"
    /\ UNCHANGED << run_vars, decision_vars, a1, a2, exitcode, procs >>

\* auto_fix_offset, lines 178-180
sv_remove_intermediates ==
    /\ variant = "sync_video" /\ pc = "remove_intermediates"
    /\ fs' = remove(remove(fs, BLANK), FIXED)
    /\ touched' = touched \cup {p \in {BLANK, FIXED} : exists(fs, p)}
    /\ pc' = "write_params_log"
    /\ UNCHANGED << run_vars, decision_vars, a1, a2, exitcode, procs >>

\* auto_fix_offset, lines 184-185: " ".join(sys.argv) is written to
\* /tmp/video_params.log; its length depends on the arguments as typed and
\* is never 0
sv_write_params_log ==
    /\ variant = "sync_video" /\ pc = "write_params_log"
    /\ \E sz \in SizesAt(PARAMS_LOG, outputfile) \ {0} :
         fs' = [fs EXCEPT ![PARAMS_LOG] = TextFile("log", sz, << >>)]
    /\ touched' = touched \cup {PARAMS_LOG}
    /\ pc' = "verify_output"
    /\ UNCHANGED << run_vars, decision_vars, a1, a2, exitcode, procs >>

\* the final check without its size test
output_exists_only(f, output) == exists(f, abspath(output))

\* auto_fix_offset, line 187: the output passes the final check
output_ok(f, output) ==
    ~(~exists(f, abspath(output)) \/ f[abspath(output)].size < MIN_OUTPUT_SIZE)

\* the final check that, instead of exiting, goes back to the evaluation
sv_verify_output_retry ==
    /\ variant = "sync_video" /\ pc = "verify_output"
    /\ pc' = IF output_ok(fs, outputfile) THEN "verified" ELSE "evaluate"
    /\ UNCHANGED << run_vars, decision_vars, a1, a2, exitcode, fs, procs, touched >>

\* auto_fix_offset, lines 187-189
sv_verify_output ==
    /\ variant = "sync_video" /\ pc = "verify_output"
    /\ IF output_ok(fs, outputfile)
         THEN pc' = "verified" /\ UNCHANGED exitcode
         ELSE Exit1
    /\ UNCHANGED << run_vars, decision_vars, a1, a2, fs, procs, touched >>

\* line 200: the script runs off its end
sv_completed ==
    /\ variant = "sync_video" /\ pc = "verified"
    /\ pc' = "Done" /\ exitcode' = 0
    /\ UNCHANGED << run_vars, decision_vars, a1, a2, fs, procs, touched >>

----------------------------------------------------------------------------
(* assign_flavor.py *)

\* lines 12-14: sys.argv[1..3]; a missing argument raises IndexError
af_read_args ==
    /\ variant = "assign_flavor" /\ pc = "start"
    /\ IF argc < MIN_ARGC
         THEN Exit1
         ELSE pc' = "probe_a" /\ UNCHANGED exitcode
    /\ UNCHANGED << run_vars, decision_vars, a1, a2, fs, procs, touched >>

\* get_audio_duration, lines 16-27: one ffprobe process; when the file is
\* missing or has no audio stream the parse raises, and nothing catches it
af_get_audio_duration(filename, result, next) ==
    IF exists(fs, abspath(filename)) /\ fs[abspath(filename)].duration # Unset
      THEN /\ result' = fs[abspath(filename)].duration
           /\ procs' = Append(procs, Proc("ffprobe", << abspath(filename) >>, "", Zero, TRUE))
           /\ pc' = next
           /\ UNCHANGED exitcode
      ELSE /\ result' = result
           /\ procs' = Append(procs, Proc("ffprobe", << abspath(filename) >>, "", Zero, FALSE))
           /\ Exit1

\* line 30
af_probe_a ==
    /\ variant = "assign_flavor" /\ pc = "probe_a"
    /\ af_get_audio_duration(presenter_input, a1, "probe_b")
    /\ UNCHANGED << run_vars, decision_vars, a2, fs, touched >>

\* line 31
af_probe_b ==
    /\ variant = "assign_flavor" /\ pc = "probe_b"
    /\ af_get_audio_duration(presentation_input, a2, "decide")
    /\ UNCHANGED << run_vars, decision_vars, a1, fs, touched >>

\* the decision with the offset taken as a1 - a2, without abs()
determine_sync_status_signed(d1, d2) ==
    LET off == fsub(float(d1), float(d2))
    IN [status |-> IF flt(fabs(off), AF_THRESHOLD) THEN "no-fix-needed" ELSE "fix-needed",
        fixed_type |-> IF flt(fabs(off), AF_THRESHOLD) THEN "none"
                       ELSE IF flt(float(d1), float(d2)) THEN "presenter"
                       ELSE "presentation",
        offset |-> off]

\* determine_sync_status, lines 32-40; d1 and d2 are the microseconds
\* printed for a1 and a2
determine_sync_status(d1, d2) ==
    LET off == fabs(fsub(float(d1), float(d2)))
    IN [status |-> IF flt(off, AF_THRESHOLD) THEN "no-fix-needed" ELSE "fix-needed",
        fixed_type |-> IF flt(off, AF_THRESHOLD) THEN "none"
                       ELSE IF flt(float(d1), float(d2)) THEN "presenter"
                       ELSE "presentation",
        offset |-> off]

\* lines 32-40 and the unpacking on line 50
af_decide ==
    /\ variant = "assign_flavor" /\ pc = "decide"
    /\ LET dec == determine_sync_status(a1, a2)
       IN /\ status' = dec.status
          /\ fixed_type' = dec.fixed_type
          /\ offset' = dec.offset
    /\ pc' = "write_properties"
    /\ UNCHANGED << run_vars, a1, a2, ref, desynced, exitcode, fs, procs, touched >>

Digit(n) == ToString(n)

\* f"{offset:.2f}": the hundredth of a second nearest to the float, the
\* even one when the float is exactly half-way, as two-decimal text
FormatOffset(off) ==
    LET q == off.us \div CENTI
        r == off.us % CENTI
        c == IF 2 * r < CENTI THEN q
             ELSE IF 2 * r > CENTI THEN q + 1
             ELSE IF off.err > 0 THEN q + 1
             ELSE IF off.err < 0 THEN q
             ELSE IF q % 2 = 0 THEN q ELSE q + 1
    IN ToString(c \div 100) \o "." \o Digit((c % 100) \div 10) \o Digit(c % 10)

\* the file write_properties writes, lines 43-46
Properties(st, ft, text) ==
    TextFile("properties", MIN_OUTPUT_SIZE + 1,
             << "sync_status=" \o st, "sync_video=" \o ft, "offset.seconds=" \o text >>)

\* write_properties(status, fixed_type, offset, outputfile), lines 42-47,
\* then the script runs off its end
af_write_properties ==
    /\ variant = "assign_flavor" /\ pc = "write_properties"
    /\ fs' = [fs EXCEPT ![abspath(outputfile)] =
                   Properties(status, fixed_type, FormatOffset(offset))]
    /\ touched' = touched \cup {abspath(outputfile)}
    /\ pc' = "Done" /\ exitcode' = 0
    /\ UNCHANGED << run_vars, decision_vars, a1, a2, procs >>

----------------------------------------------------------------------------

Next ==
    \/ sv_check_args
    \/ sv_validate_inputs
    \/ sv_probe_a
    \/ sv_probe_b
    \/ sv_evaluate
    \/ sv_extract_audio
    \/ sv_mux_leader
    \/ sv_remove_temp_audio
    \/ sv_reencode_video
    \/ sv_write_manifest
    \/ sv_concat
    \/ sv_remove_manifest
    \/ sv_remove_intermediates
    \/ sv_write_params_log
    \/ sv_verify_output
    \/ sv_completed
    \/ af_read_args
    \/ af_probe_a
    \/ af_probe_b
    \/ af_decide
    \/ af_write_properties

Spec == Init /\ [][Next]_vars

Terminal == {"Done", "Aborted"}

----------------------------------------------------------------------------
(* Two runs of sync_video.py in one working directory.  Both are started    *)
(* with the same command line.  One run at a time is the scheduled one: its *)
(* position and locals are the variables, and its steps are the actions     *)
(* above; the other run's are saved in `peer`.  A file's `by` is relative   *)
(* to the scheduled run: "run" for what it wrote itself, "peer" for what    *)
(* the other run wrote.                                                     *)

sv_step ==
    \/ sv_check_args
    \/ sv_validate_inputs
    \/ sv_probe_a
    \/ sv_probe_b
    \/ sv_evaluate
    \/ sv_extract_audio
    \/ sv_mux_leader
    \/ sv_remove_temp_audio
    \/ sv_reencode_video
    \/ sv_write_manifest
    \/ sv_concat
    \/ sv_remove_manifest
    \/ sv_remove_intermediates
    \/ sv_write_params_log
    \/ sv_verify_output
    \/ sv_completed

\* input paths that do not bear a temporary file's name
OrdinaryInputs == {p \in InputArgs : abspath(p) \notin TempFiles}

\* both runs are still to start; the inputs are ordinary files, so that what
\* a run probes is an original, or an output written over it
TwoRunsInit ==
    /\ variant = "sync_video"
    /\ argc = MIN_ARGC
    /\ presenter_input \in OrdinaryInputs
    /\ presentation_input \in OrdinaryInputs
    /\ outputfile \in OutputArgs
    /\ pc = "start"
    /\ exitcode = Running
    /\ a1 = Unset /\ a2 = Unset
    /\ status = "" /\ offset = Zero /\ fixed_type = ""
    /\ ref = "" /\ desynced = ""
    /\ fs \in InitialFileSystems(presenter_input, presentation_input, outputfile)
    /\ fs0 = fs
    /\ procs = << >>
    /\ touched = {}
    /\ peer = [present |-> TRUE, switches |-> 0, run |-> FreshRun]

\* the position and locals of the scheduled run
ThisRun ==
    [pc |-> pc, exitcode |-> exitcode, a1 |-> a1, a2 |-> a2,
     status |-> status, offset |-> offset, fixed_type |-> fixed_type,
     ref |-> ref, desynced |-> desynced, procs |-> procs, touched |-> touched]

\* the file system as the other run sees it
Relabel(f) ==
    [p \in Paths |->
        IF f[p].by = "run" THEN [f[p] EXCEPT !.by = "peer"]
        ELSE IF f[p].by = "peer" THEN [f[p] EXCEPT !.by = "run"]
        ELSE f[p]]

\* the other run becomes the scheduled one
switch_runs ==
    /\ pc' = peer.run.pc
    /\ exitcode' = peer.run.exitcode
    /\ a1' = peer.run.a1 /\ a2' = peer.run.a2
    /\ status' = peer.run.status
    /\ offset' = peer.run.offset
    /\ fixed_type' = peer.run.fixed_type
    /\ ref' = peer.run.ref /\ desynced' = peer.run.desynced
    /\ procs' = peer.run.procs
    /\ touched' = peer.run.touched
    /\ fs' = Relabel(fs)
    /\ peer' = [present |-> TRUE, switches |-> peer.switches + 1, run |-> ThisRun]
    /\ UNCHANGED << variant, argc, presenter_input, presentation_input, outputfile, fs0 >>

\* two runs one after the other: the second starts when the first has ended
next_run ==
    /\ peer.present /\ peer.switches = 0
    /\ pc \in Terminal
    /\ switch_runs

SequentialNext == sv_step \/ next_run

SequentialSpec == TwoRunsInit /\ [][SequentialNext]_vars

\* the command line with three distinct ordinary paths
OrdinaryArgs ==
    /\ presenter_input = "presenter.mp4"
    /\ presentation_input = "presentation.mp4"
    /\ outputfile = "output.mp4"

\* two runs at the same time: the operating system may take the processor
\* from one and give it to the other between any two steps
context_switch ==
    /\ peer.present /\ peer.switches < MaxSwitches
    /\ peer.run.pc \notin Terminal
    /\ switch_runs

ConcurrentNext == sv_step \/ context_switch

\* One run of the full variant on inputs that do not bear a temporary
\* file's name, in which every statement is executed when the one before it
\* is done and every external tool invocation eventually exits: a run that
\* can take a step takes one.
FullVariantInit ==
    /\ Init
    /\ variant = "sync_video"
    /\ presenter_input \in OrdinaryInputs /\ presentation_input \in OrdinaryInputs

FullVariantFairSpec == FullVariantInit /\ [][sv_step]_vars /\ WF_vars(sv_step)

ConcurrentInit == TwoRunsInit /\ OrdinaryArgs

ConcurrentSpec == ConcurrentInit /\ [][ConcurrentNext]_vars

----------------------------------------------------------------------------
(* Properties *)

\* the run is the full variant and has taken its decision
Decided(st) == variant = "sync_video" /\ status = st

\* the run was given three distinct ordinary paths and started in a working
\* directory holding no temporary file of an earlier run
CleanStart ==
    /\ presenter_input = "presenter.mp4"
    /\ presentation_input = "presentation.mp4"
    /\ outputfile = "output.mp4"
    /\ \A p \in TempFiles \cup {PARAMS_LOG} : ~exists(fs0, p)

\* a status record with the three keys, written by this run
StatusRecord(f) ==
    /\ f.kind = "properties" /\ f.by = "run"
    /\ Len(f.lines) = 3

\* C1: every run that ends successfully (Done, exit code 0) has written the
\* durable status record (sync_status, sync_video, offset.seconds), in the
\* status-only variant and in the full variant alike.  Stated for the runs
\* on three distinct ordinary paths in a clean working directory.
C1_DoneHasStatusRecord ==
    (CleanStart /\ pc = "Done" /\ exitcode = 0) => \E p \in Paths : StatusRecord(fs[p])

\* C2: in both variants, once the decision is taken: probed durations less
\* than 0.1 s apart give no-fix-needed with defective role none, whichever is
\* larger; durations exactly 0.1 s apart or more give fix-needed.
C2_ThresholdDecision ==
    status # "" =>
        IF Abs(a1 - a2) < 100000
          THEN status = "no-fix-needed" /\ fixed_type = "none"
          ELSE status = "fix-needed"

\* C3: in both variants, when the probed durations are 0.1 s apart or
\* more, the reported defective role is the role bound to the smaller
\* duration (presenter = first argument, presentation = second argument),
\* for every choice of the two input paths.
C3_DefectiveRoleIsShorter ==
    (status # "" /\ Abs(a1 - a2) >= 100000) =>
        fixed_type = IF a1 < a2 THEN "presenter" ELSE "presentation"

\* C4: the full variant reaches Verified and Done only if the output path
\* exists and its size strictly exceeds 10,000 bytes.  Stated for the runs
\* on three distinct ordinary paths in a clean working directory.
C4_DoneOnlyIfOutputExceedsMinimum ==
    (CleanStart /\ variant = "sync_video" /\ pc \in {"verified", "Done"}) =>
        /\ exists(fs, abspath(outputfile))
        /\ fs[abspath(outputfile)].size > 10000

\* a file at the output path passes the size check of line 187
PassesSizeCheck(f) ==
    exists(f, abspath(outputfile)) /\ f[abspath(outputfile)].size >= MIN_OUTPUT_SIZE

\* what C5 says of a no-fix-needed run of the full variant: the run does
\* not write the output path, and ends Done (exit 0) exactly when a file
\* passing the size check was at the output path before the run, Aborted
\* (exit 1) otherwise
NoFixOutcome ==
    /\ abspath(outputfile) \notin touched
    /\ fs[abspath(outputfile)] = fs0[abspath(outputfile)]
    /\ pc = "verified" => PassesSizeCheck(fs0)
    /\ pc \in Terminal =>
         IF PassesSizeCheck(fs0)
           THEN pc = "Done" /\ exitcode = 0
           ELSE pc = "Aborted" /\ exitcode = 1

\* C5 as stated: for every no-fix-needed run of the full variant.
C5_NoFixNeedsPreexistingOutput ==
    Decided("no-fix-needed") => NoFixOutcome

\* C5 as amended: for every no-fix-needed run of the full variant whose
\* output path is not /tmp/video_params.log, the file the run itself writes
\* on line 184.
C5_NoFixNeedsPreexistingOutput_Amended ==
    (Decided("no-fix-needed") /\ abspath(outputfile) # PARAMS_LOG) => NoFixOutcome

\* C5 witness: a no-fix-needed run aborted because no output file was there
C5_Witness ==
    /\ Decided("no-fix-needed") /\ abspath(outputfile) # PARAMS_LOG
    /\ ~exists(fs0, abspath(outputfile))
    /\ pc = "Aborted" /\ exitcode = 1

\* C6: in the full variant a failed external step (probe, either leader
\* invocation, re-encode, concat) is the last process the run starts, and
\* the run is then Aborted with exit code 1; exit code 0 occurs only in Done,
\* after no failure.
C6_FailFast ==
    variant = "sync_video" =>
        /\ \A i \in DOMAIN procs :
             ~procs[i].ok => (i = Len(procs) /\ pc = "Aborted" /\ exitcode = 1)
        /\ exitcode = 0 => pc = "Done"
        /\ pc = "Done" => exitcode = 0

\* C6 witness: the re-encode failed after the leader was synthesized
C6_Witness ==
    /\ variant = "sync_video" /\ pc = "Aborted" /\ exitcode = 1
    /\ Len(procs) = 5
    /\ procs[5].tool = "reencode_video" /\ ~procs[5].ok

\* C7: in the full variant, with fewer than three arguments or an input
\* path that does not exist, the run never gets past validation: it spawns
\* no process, creates and deletes no file, and ends with exit code 1.
C7_ValidationBeforeAnything ==
    ( /\ variant = "sync_video"
      /\ \/ argc < 4
         \/ ~exists(fs0, abspath(presenter_input))
         \/ ~exists(fs0, abspath(presentation_input)) ) =>
        /\ procs = << >>
        /\ touched = {} /\ fs = fs0
        /\ pc \in {"start", "validate_inputs", "Aborted"}
        /\ pc = "Aborted" => exitcode = 1
        /\ pc # "Aborted" => exitcode = Running

\* C7 witness: the presenter exists, the presentation does not, and the run
\* has exited
C7_Witness ==
    /\ variant = "sync_video" /\ argc = 4
    /\ exists(fs0, abspath(presenter_input))
    /\ ~exists(fs0, abspath(presentation_input))
    /\ pc = "Aborted" /\ exitcode = 1

\* the tool invocation named `tool` was made and exited with status 0
Succeeded(tool) == \E i \in DOMAIN procs : procs[i].tool = tool /\ procs[i].ok

\* C8: in every terminal state of a full-variant run that entered Fixing,
\* neither intermediate clip (blank_with_audio.mp4, desynced_fixed.mp4)
\* exists any longer.  Stated for the runs on three distinct ordinary paths
\* in a clean working directory whose leader synthesis succeeded.
C8_IntermediatesDeleted ==
    (CleanStart /\ Decided("fix-needed") /\ Succeeded("mux_leader") /\ pc \in Terminal) =>
        \A p \in {BLANK, FIXED} : ~exists(fs, p)

\* create_offset_video was entered and has ended
LeaderSynthesisEnded ==
    /\ variant = "sync_video"
    /\ \E i \in DOMAIN procs : procs[i].tool = "extract_audio"
    /\ pc \notin {"mux_leader", "remove_temp_audio"}

\* C9: after create_offset_video has been entered and has ended in any way,
\* temp_offset_audio.aac does not exist.  Stated for the runs on three
\* distinct ordinary paths in a clean working directory whose audio
\* extraction succeeded.
C9_TempAudioDeleted ==
    (CleanStart /\ LeaderSynthesisEnded /\ Succeeded("extract_audio")) =>
        ~exists(fs, TEMP_AUDIO)

\* concat_videos was called and has ended
ConcatEnded ==
    /\ variant = "sync_video"
    /\ \E i \in DOMAIN procs : procs[i].tool = "concat_videos"
    /\ pc # "remove_manifest"

\* C10: after concat_videos has been called and has ended in any way, the
\* manifest concat_list.txt does not exist.  Stated for the runs on three
\* distinct ordinary paths in a clean working directory.
C10_ManifestDeleted ==
    (CleanStart /\ ConcatEnded) => ~exists(fs, CONCAT_LIST)

\* C11: in any run of either variant, for every choice of the three path
\* arguments, the files at the presenter and presentation paths are never
\* written, overwritten or deleted.
C11_InputsNeverMutated ==
    \A p \in {abspath(presenter_input), abspath(presentation_input)} :
        p \notin touched /\ fs[p] = fs0[p]

\* the offset the evaluator of the running variant computes for the probed
\* durations d1, d2 of the presenter and the presentation
evaluate_offset(d1, d2) ==
    IF variant = "sync_video"
      THEN auto_fix_decision(d1, d2, presenter_input, presentation_input,
                             presenter_input, presentation_input).offset
      ELSE determine_sync_status(d1, d2).offset

\* C12: in both variants the offset the evaluator computes is the same when
\* its two duration arguments are swapped.
C12_OffsetSymmetric ==
    status # "" =>
        /\ offset = evaluate_offset(a1, a2)
        /\ evaluate_offset(a1, a2) = evaluate_offset(a2, a1)

\* C12 witness: a fix-needed decision of the status-only variant with the
\* presenter the shorter, so that a1 - a2 is negative
C12_Witness ==
    /\ variant = "assign_flavor" /\ status = "fix-needed"
    /\ a1 < a2 /\ offset.us = a2 - a1 /\ offset.us > 0

\* the external processes of a fix-needed run, in the order of lines 143-144
\* and 174-176
StageOrder ==
    << "ffprobe", "ffprobe", "extract_audio", "mux_leader", "reencode_video",
       "concat_videos" >>

\* the input with the longer audio and the one with the shorter
LongerInput == IF a1 > a2 THEN abspath(presenter_input) ELSE abspath(presentation_input)
ShorterInput == IF a1 > a2 THEN abspath(presentation_input) ELSE abspath(presenter_input)

\* C13: in every fix-needed run of the full variant the processes are
\* spawned in the order probe, probe, leader synthesis (audio extraction,
\* muxing), normalization, concatenation, each only after the one before it
\* exited with status 0; the leader is cut from the input with the longer
\* audio, for offset = |d_a - d_b| seconds; the normalizer reads the input
\* with the shorter audio; the concatenation reads the manifest, which names
\* the leader clip first and the normalized clip second.  An input that does
\* not bear a temporary file's name is read as it was before the run.
C13_StagesInOrder ==
    Decided("fix-needed") =>
        /\ Len(procs) <= Len(StageOrder)
        /\ \A i \in DOMAIN procs :
             /\ procs[i].tool = StageOrder[i]
             /\ i < Len(procs) => procs[i].ok
             /\ procs[i].tool \in {"extract_audio", "reencode_video"} =>
                  (procs[i].reads[1] \notin TempFiles => procs[i].readsBy[1] = "before")
        /\ offset = fabs(fsub(float(a1), float(a2)))
        /\ offset.us = Abs(a1 - a2)
        /\ Len(procs) >= 3 => procs[3].reads = << LongerInput >> /\ procs[3].d = offset
        /\ Len(procs) >= 4 => procs[4].reads = << TEMP_AUDIO >> /\ procs[4].d = offset
        /\ Len(procs) >= 5 => procs[5].reads = << ShorterInput >>
        /\ Len(procs) >= 6 => procs[6].reads = << CONCAT_LIST, BLANK, FIXED >>

\* C13 witness: a fix-needed run with the presenter the longer went through
\* all three stages and completed
C13_Witness ==
    /\ Decided("fix-needed") /\ a1 > a2
    /\ Len(procs) = 6 /\ procs[6].ok
    /\ pc = "Done"

\* the correction artifacts of a run
Artifacts == TempFiles \cup {abspath(outputfile)}

\* what C14 says of a no-fix-needed run of the full variant: it starts no
\* process but the two probes, and no correction artifact and no file of the
\* working directory is created, modified or deleted
NoFixLeavesUnchanged ==
    /\ \A i \in DOMAIN procs : procs[i].tool = "ffprobe"
    /\ \A p \in Artifacts \cup (Paths \ {PARAMS_LOG}) :
         p \notin touched /\ fs[p] = fs0[p]

\* C14 as stated: for every no-fix-needed run of the full variant.
C14_NoFixLeavesUnchanged ==
    Decided("no-fix-needed") => NoFixLeavesUnchanged

\* C14 as amended: for every no-fix-needed run of the full variant whose
\* output path is not /tmp/video_params.log, which the run writes on line
\* 184.
C14_NoFixLeavesUnchanged_Amended ==
    (Decided("no-fix-needed") /\ abspath(outputfile) # PARAMS_LOG) => NoFixLeavesUnchanged

\* C14 witness: a no-fix-needed run completed in a working directory that
\* held the temporary files of an earlier run
C14_Witness ==
    /\ Decided("no-fix-needed") /\ abspath(outputfile) # PARAMS_LOG
    /\ \A p \in TempFiles : exists(fs0, p)
    /\ pc = "Done"

\* C15: in every reachable state of the full variant the defective role is
\* never "unknown": it is "none" once the decision is no-fix-needed and
\* "presenter" or "presentation" once it is fix-needed.
C15_NeverUnknown ==
    variant = "sync_video" =>
        /\ fixed_type # "unknown"
        /\ status = "" => fixed_type = ""
        /\ status = "no-fix-needed" => fixed_type = "none"
        /\ status = "fix-needed" => fixed_type \in {"presenter", "presentation"}

\* C15 witness: a fix-needed decision on an input that bears a temporary
\* file's name, attributed to the presentation
C15_Witness ==
    /\ Decided("fix-needed") /\ fixed_type = "presentation"
    /\ abspath(presentation_input) \in TempFiles

\* the stages that consume intermediates: the muxing reads the temp audio,
\* the concatenation the manifest and the two clips it names
Consumers == {"mux_leader", "concat_videos"}

\* whose files the consuming stages among the processes ps read ("none": the
\* file was not there)
ConsumedFrom(ps) ==
    UNION { {ps[i].readsBy[j] : j \in DOMAIN ps[i].readsBy} :
            i \in {k \in DOMAIN ps : ps[k].tool \in Consumers} }

\* a run whose processes are ps raced with the other: a stage consumed a file
\* the other run wrote, or found its own intermediate deleted
Raced(ps) == ConsumedFrom(ps) \cap {"peer", "none"} # {}

\* C16: two fix-needed runs of the full variant in one working directory
\* race on the fixed temp names when they are interleaved (the race itself
\* is the state C16_Witness describes), and only then: a run consumes an
\* intermediate of the other run, or misses its own, only after it was
\* interrupted by the other run and resumed, both being fix-needed runs.
C16_RaceOnlyWhenInterleaved ==
    (Raced(procs) \/ Raced(peer.run.procs)) =>
        /\ peer.switches >= 2
        /\ status = "fix-needed" /\ peer.run.status = "fix-needed"

\* C16 witness: no tool of either run failed, and the concatenation of one
\* run exited with status 0 having read a clip or a manifest written by the
\* other run
C16_Witness ==
    /\ variant = "sync_video" /\ peer.present
    /\ status = "fix-needed" /\ peer.run.status = "fix-needed"
    /\ \A i \in DOMAIN peer.run.procs : peer.run.procs[i].ok
    /\ \E i \in DOMAIN procs :
         /\ procs[i].tool = "concat_videos" /\ procs[i].ok
         /\ \E j \in DOMAIN procs[i].readsBy : procs[i].readsBy[j] = "peer"

\* C17: when full-variant runs follow one another in one working directory,
\* whatever the earlier run or anything before it left behind, every
\* intermediate a stage consumes (the temp audio for the muxing; the
\* manifest, the leader and the normalized clip for the concatenation) was
\* written by the same run.
C17_NoCrossRunIntermediates ==
    /\ ConsumedFrom(procs) \subseteq {"run"}
    /\ ConsumedFrom(peer.run.procs) \subseteq {"run"}

\* C17 witness: the first run aborted in its concatenation and left its
\* manifest and clips behind; the second run went through its own
\* concatenation and completed
C17_Witness ==
    /\ peer.present /\ peer.switches = 1
    /\ peer.run.pc = "Aborted"
    /\ \E i \in DOMAIN peer.run.procs :
         peer.run.procs[i].tool = "concat_videos" /\ ~peer.run.procs[i].ok
    /\ \E i \in DOMAIN procs : procs[i].tool = "concat_videos" /\ procs[i].ok
    /\ pc = "Done"

\* the SyncDecision of a decision record: status, defective role, offset
SyncDecision(dec) ==
    [status |-> dec.status, fixed_type |-> dec.fixed_type, offset |-> dec.offset]

\* C18: for the durations a run has probed, determine_sync_status and
\* auto_fix_offset compute the same SyncDecision: the same status, the same
\* defective role and the same offset, which on the no-fix-needed path is
\* the raw |d_a - d_b|.
C18_VariantsAgree ==
    status # "" =>
        LET af == SyncDecision(determine_sync_status(a1, a2))
            sv == SyncDecision(auto_fix_decision(a1, a2, presenter_input,
                                                 presentation_input, presenter_input,
                                                 presentation_input))
        IN /\ af = sv
           /\ af.offset = fabs(fsub(float(a1), float(a2)))

\* the state of the run in the state machine of the full variant: Probed
\* once both durations are known, Evaluated once the decision is taken,
\* Fixing from the first invocation of a stage to the cleanup of lines
\* 178-180, Fixed or PassThrough from there to the final check
RunState ==
    CASE pc \in {"start", "validate_inputs", "probe_a", "probe_b"} -> "Start"
      [] pc = "evaluate" -> "Probed"
      [] pc = "extract_audio" -> "Evaluated"
      [] pc = "write_params_log" /\ status = "no-fix-needed" -> "Evaluated"
      [] pc \in {"mux_leader", "remove_temp_audio", "reencode", "write_manifest",
                 "concat", "remove_manifest", "remove_intermediates"} -> "Fixing"
      [] pc = "write_params_log" /\ status = "fix-needed" -> "Fixed"
      [] pc = "verify_output" /\ status = "fix-needed" -> "Fixed"
      [] pc = "verify_output" /\ status = "no-fix-needed" -> "PassThrough"
      [] pc = "verified" -> "Verified"
      [] OTHER -> pc

\* the transitions of the state machine
Transitions ==
    { << "Start", "Probed" >>, << "Probed", "Evaluated" >>,
      << "Evaluated", "PassThrough" >>, << "Evaluated", "Fixing" >>,
      << "Fixing", "Fixed" >>, << "Fixed", "Verified" >>,
      << "PassThrough", "Verified" >>, << "Verified", "Done" >> }
    \cup { << s, "Aborted" >> : s \in {"Start", "Probed", "Evaluated", "PassThrough",
                                       "Fixing", "Fixed", "Verified"} }

\* how many of the processes spawned so far ran `tool`
Invocations(tool) == Cardinality({i \in DOMAIN procs : procs[i].tool = tool})

\* each input is probed once and each stage invoked at most once; a failed
\* invocation is the last
NothingTwice ==
    /\ Invocations("ffprobe") <= 2
    /\ \A tool \in {"extract_audio", "mux_leader", "reencode_video", "concat_videos"} :
         Invocations(tool) <= 1
    /\ \A i \in DOMAIN procs : ~procs[i].ok => i = Len(procs)

\* C19: every external tool invocation eventually exiting, every run of the
\* full variant eventually reaches Done or Aborted and stays there; it
\* changes state only along Start, Probed, Evaluated, then PassThrough or
\* Fixing then Fixed, then Verified, then Done (or to Aborted); no stage is
\* executed twice and no failed invocation is followed by another.
C19_TerminatesInOrder ==
    /\ (variant = "sync_video") ~> (pc \in Terminal)
    /\ [][variant = "sync_video" /\ pc \in Terminal => pc' = pc]_vars
    /\ [][variant = "sync_video" /\ RunState' # RunState =>
             << RunState, RunState' >> \in Transitions]_vars
    /\ [](variant = "sync_video" => NothingTwice)

\* C19 witness: a fix-needed run has gone through every state to Done
C19_Witness ==
    /\ Decided("fix-needed") /\ pc = "Done"
    /\ Invocations("concat_videos") = 1

====
